---- MODULE Spec2Model ----
(***************************************************************************)
(* Model of the typed configuration store of tea-console:                  *)
(*   TeaConsoleConfig (src/tea_console/config.py): field registry,         *)
(*   coercion (set/get), persistence (load/save), subclass resolution;     *)
(*   ConfigEngine (src/tea_console/engine/config_engine.py and             *)
(*   src/console_tea/engine/config_engine.py): set by dotted key, list.    *)
(*                                                                         *)
(* Strings are sequences of one-character strings, so that quoting, JSON   *)
(* parsing, JSON encoding and ConfigParser interpolation are computed on   *)
(* the characters.  A dotted key is the sequence of its dot-free parts     *)
(* ("general.debug" is <<"general", "debug">>, "badkey" is <<"badkey">>,   *)
(* ".debug" is <<"", "debug">>), which is exactly str.split(".").          *)
(***************************************************************************)
EXTENDS Naturals, Sequences, FiniteSets, TLC

VARIABLES
    parents,    \* class hierarchy: parents[c] is the direct base of class c (0 is TeaConsoleConfig)
    resolved,   \* result of the last get_application_config call
    inst,       \* the singleton: "none" (not constructed), "ready", "failed" (__init__ raised)
    mem,        \* attributes of the configuration instance: field name -> typed value
    fstate,     \* the backing file: "absent", "ok" (parsable), "corrupt" (ConfigParser.read raises)
    file,       \* the backing file as ConfigParser reads it: <<section, option>> -> raw string
    last,       \* the last operation called, its arguments and its outcome
    twin        \* outcome of the same set with the raw value enclosed in double quotes

vars == <<parents, resolved, inst, mem, fstate, file, last, twin>>

----------------------------------------------------------------------------
(* Characters and Python string helpers *)

\* Body applied to the value of v, v evaluated once
With(v, Body(_)) == CHOOSE r \in {Body(x) : x \in {v}} : TRUE

Q   == "\""
BS  == "\\"
SP  == " "
PCT == "%"

Whitespace == {SP, "\t", "\n", "\r", "\f"}
ControlChars == {"\t", "\n", "\r", "\f"}

UpperOf == [c \in {"n", "u", "l", "t", "c", "e"} |->
              CASE c = "n" -> "N" [] c = "u" -> "U" [] c = "l" -> "L"
                [] c = "t" -> "T" [] c = "c" -> "C" [] c = "e" -> "E"]
LowerOf == [c \in {"N", "U", "L", "T", "C", "E"} |->
              CASE c = "N" -> "n" [] c = "U" -> "u" [] c = "L" -> "l"
                [] c = "T" -> "t" [] c = "C" -> "c" [] c = "E" -> "e"]

\* str.lower() and str.upper(), character by character
Lower(s) == [i \in 1..Len(s) |-> IF s[i] \in DOMAIN LowerOf THEN LowerOf[s[i]] ELSE s[i]]
Upper(s) == [i \in 1..Len(s) |-> IF s[i] \in DOMAIN UpperOf THEN UpperOf[s[i]] ELSE s[i]]

RECURSIVE LStrip(_)
LStrip(s) == IF s # <<>> /\ Head(s) \in Whitespace THEN LStrip(Tail(s)) ELSE s

RECURSIVE RStrip(_)
RStrip(s) == IF s # <<>> /\ s[Len(s)] \in Whitespace
             THEN RStrip(SubSeq(s, 1, Len(s) - 1)) ELSE s

\* str.strip()
Strip(s) == RStrip(LStrip(s))

\* value.startswith('"') and value.endswith('"')
StartsWithQuote(s) == s # <<>> /\ s[1] = Q
EndsWithQuote(s)   == s # <<>> /\ s[Len(s)] = Q

\* fr'"{value}"'
Quote(s) == <<Q>> \o s \o <<Q>>

----------------------------------------------------------------------------
(* Python values: t is the runtime type, b the value of a bool, s the text  *)
(* of a str / the digits of an int / the value of an enum member / the zone *)
(* of a timezone.                                                           *)

V(t, b, s) == [t |-> t, b |-> b, s |-> s]
None       == V("NoneType", FALSE, <<>>)
Bool(b)    == V("bool", b, <<>>)
Str(s)     == V("str", FALSE, s)
Int(s)     == V("int", FALSE, s)
Float(s)   == V("float", FALSE, s)

----------------------------------------------------------------------------
(* json.loads on a scalar text, json.dumps of a scalar *)

Digits == {"0", "1"}

\* escapes of a JSON string that stay inside the alphabet (\uXXXX needs four
\* hex digits after it; no input of the model carries them, so \u is a parse error)
EscapeOf == [c \in {Q, BS, "/", "n", "t", "r", "f"} |->
               CASE c = Q -> Q [] c = BS -> BS [] c = "/" -> "/"
                 [] c = "n" -> "\n" [] c = "t" -> "\t" [] c = "r" -> "\r" [] c = "f" -> "\f"]

\* the body of a JSON string literal (between the quotes), decoded
RECURSIVE JsonStringBody(_, _)
JsonStringBody(s, acc) ==
    IF s = <<>> THEN [ok |-> TRUE, s |-> acc]
    ELSE IF Head(s) = Q \/ Head(s) \in ControlChars THEN [ok |-> FALSE, s |-> <<>>]
    ELSE IF Head(s) = BS
         THEN IF Len(s) >= 2 /\ s[2] \in DOMAIN EscapeOf
              THEN JsonStringBody(SubSeq(s, 3, Len(s)), Append(acc, EscapeOf[s[2]]))
              ELSE [ok |-> FALSE, s |-> <<>>]
    ELSE JsonStringBody(Tail(s), Append(acc, Head(s)))

IsJsonInt(t) ==
    /\ t # <<>>
    /\ \A i \in 1..Len(t) : t[i] \in Digits
    /\ (Len(t) = 1 \/ t[1] # "0")

JsonScalar(t) ==
    LET bad == [ok |-> FALSE, v |-> None]
    IN  IF t = <<"t", "r", "u", "e">> THEN [ok |-> TRUE, v |-> Bool(TRUE)]
        ELSE IF t = <<"f", "a", "l", "s", "e">> THEN [ok |-> TRUE, v |-> Bool(FALSE)]
        ELSE IF t = <<"n", "u", "l", "l">> THEN [ok |-> TRUE, v |-> None]
        ELSE IF t = <<"N", "a", "N">> THEN [ok |-> TRUE, v |-> Float(t)]
        ELSE IF IsJsonInt(t) THEN [ok |-> TRUE, v |-> Int(t)]
        ELSE IF Len(t) >= 2 /\ t[1] = Q /\ t[Len(t)] = Q
             THEN With(JsonStringBody(SubSeq(t, 2, Len(t) - 1), <<>>),
                       LAMBDA body : IF body.ok THEN [ok |-> TRUE, v |-> Str(body.s)]
                                     ELSE bad)
        ELSE bad

\* json.loads(text): [ok, v]; ok = FALSE is json.JSONDecodeError (a ValueError)
JsonLoads(text) == With(Strip(text), JsonScalar)

RECURSIVE JsonEscape(_)
JsonEscape(s) ==
    IF s = <<>> THEN <<>>
    ELSE LET c == Head(s)
             e == CASE c = Q -> <<BS, Q>> [] c = BS -> <<BS, BS>>
                    [] c = "\n" -> <<BS, "n">> [] c = "\t" -> <<BS, "t">>
                    [] c = "\r" -> <<BS, "r">> [] c = "\f" -> <<BS, "f">>
                    [] OTHER -> <<c>>
         IN  e \o JsonEscape(Tail(s))

\* json.dumps(value) of a scalar
JsonDumps(v) ==
    CASE v.t = "NoneType" -> <<"n", "u", "l", "l">>
      [] v.t = "bool" -> IF v.b THEN <<"t", "r", "u", "e">> ELSE <<"f", "a", "l", "s", "e">>
      [] v.t = "str" -> Quote(JsonEscape(v.s))
      [] OTHER -> v.s

----------------------------------------------------------------------------
(* The field registry *)

T_EXT  == <<"t", "e", "x", "t">>
J_SON  == <<"j", "s", "o", "n">>
UTC    == <<"U", "T", "C">>
CET    == <<"C", "E", "T">>
LOGS   == <<"l", "o", "g", "s">>

\* ConfigField(section, option, type, to_value, to_string)
ConfigField(section, option, type, to_value, to_string) ==
    [section |-> section, option |-> option, type |-> type,
     to_value |-> to_value, to_string |-> to_string]

\* TeaConsoleConfig.ENTRIES, in declaration order
FieldOrder == <<"debug", "format", "timezone", "log_dir">>
Fields == {FieldOrder[i] : i \in 1..Len(FieldOrder)}

ENTRIES == [f \in Fields |->
    CASE f = "debug"    -> ConfigField("general", "debug", "bool", "none", "none")
      [] f = "format"   -> ConfigField("general", "format", "str", "ConsoleFormat", "value")
      [] f = "timezone" -> ConfigField("general", "timezone", "str", "pytz.timezone", "zone")
      [] f = "log_dir"  -> ConfigField("general", "log_dir", "str", "none", "none")]

PairOf(f) == <<ENTRIES[f].section, ENTRIES[f].option>>
OwnedPairs == {PairOf(f) : f \in Fields}

\* the members of the enum ConsoleFormat, by value
ConsoleFormatValues == {T_EXT, J_SON}

\* the zones pytz knows (of which the model uses two)
KnownZones == {UTC, CET}

\* tzlocal.get_localzone()
LocalZone == CET

Format(s) == V("ConsoleFormat", FALSE, s)
Tz(z)     == V("tzinfo", FALSE, z)

\* ConsoleFormat(value): the member with that value, or ValueError
ConsoleFormatOf(v) ==
    IF v.t = "str" /\ v.s \in ConsoleFormatValues
    THEN [ok |-> TRUE, v |-> Format(v.s)]
    ELSE [ok |-> FALSE, v |-> None]

\* pytz.timezone(zone): case-insensitive lookup, or UnknownTimeZoneError (a KeyError)
PytzTimezone(v) ==
    IF v.t # "str" THEN [ok |-> FALSE, v |-> None]
    ELSE IF Upper(v.s) = UTC THEN [ok |-> TRUE, v |-> Tz(UTC)]
    ELSE IF \E z \in KnownZones : Lower(z) = Lower(v.s)
         THEN [ok |-> TRUE, v |-> Tz(CHOOSE z \in KnownZones : Lower(z) = Lower(v.s))]
    ELSE [ok |-> FALSE, v |-> None]

\* mutant: the type check accepts every value
IsInstanceAny(v, type) == TRUE

\* isinstance(value, entry.type)
IsInstance(v, type) == v.t = type

----------------------------------------------------------------------------
(* Errors *)

NoKey == <<>>

NoErr == [type |-> "none", op |-> "none", key |-> NoKey, value |-> None, cause |-> "none"]

\* errors.InvalidConfiguration(key, value, error, operation); operation defaults to Op.get
InvalidConfiguration(key, value, op, cause) ==
    [type |-> "InvalidConfiguration", op |-> op, key |-> key, value |-> value, cause |-> cause]

\* an exception that is no InvalidConfiguration
Raised(type, cause) ==
    [type |-> type, op |-> "none", key |-> NoKey, value |-> None, cause |-> cause]

----------------------------------------------------------------------------
(* TeaConsoleConfig.set and TeaConsoleConfig.get *)

\* mutant: a string that is already quoted is quoted again
NeedsQuotingAlways(type, value) ==
    /\ type = "str"
    /\ Lower(Strip(value)) # <<"n", "u", "l", "l">>

\* the quoting condition of set
NeedsQuoting(type, value) ==
    /\ type = "str"
    /\ ~(StartsWithQuote(value) /\ EndsWithQuote(value))
    /\ Lower(Strip(value)) # <<"n", "u", "l", "l">>

SetFail(m, e) == [ok |-> FALSE, mem |-> m, err |-> e]
SetOk(m, field, v) == [ok |-> TRUE, mem |-> [m EXCEPT ![field] = v], err |-> NoErr]

\* mutant: setattr runs right after json.loads, before the type check and to_value
SetLoadedAssignFirst(m, field, entry, value, loaded) ==
    IF ~loaded.ok
    THEN SetFail(m, InvalidConfiguration(<<field>>, Str(value), "set", "CannotParse"))
    ELSE IF loaded.v # None /\ ~IsInstance(loaded.v, entry.type)
    THEN SetFail([m EXCEPT ![field] = loaded.v],
                 InvalidConfiguration(<<field>>, loaded.v, "set", "TypeMismatch"))
    ELSE IF entry.to_value = "ConsoleFormat"
    THEN With(ConsoleFormatOf(loaded.v), LAMBDA c :
             IF c.ok THEN SetOk(m, field, c.v)
             ELSE SetFail([m EXCEPT ![field] = loaded.v],
                          InvalidConfiguration(<<field>>, loaded.v, "set", "ValueError")))
    ELSE IF entry.to_value = "pytz.timezone"
    THEN With(PytzTimezone(loaded.v), LAMBDA z :
             IF z.ok THEN SetOk(m, field, z.v)
             ELSE SetFail([m EXCEPT ![field] = loaded.v],
                          Raised("UnknownTimeZoneError", "UnknownTimeZoneError")))
    ELSE SetOk(m, field, loaded.v)

\* set from json.loads on: the type check, to_value, setattr
SetLoaded(m, field, entry, value, loaded) ==
    IF ~loaded.ok
    THEN SetFail(m, InvalidConfiguration(<<field>>, Str(value), "set", "CannotParse"))
    ELSE IF loaded.v # None /\ ~IsInstance(loaded.v, entry.type)
    THEN SetFail(m, InvalidConfiguration(<<field>>, loaded.v, "set", "TypeMismatch"))
    ELSE IF entry.to_value = "ConsoleFormat"
    THEN With(ConsoleFormatOf(loaded.v), LAMBDA c :
             IF c.ok THEN SetOk(m, field, c.v)
             ELSE SetFail(m, InvalidConfiguration(<<field>>, loaded.v, "set", "ValueError")))
    ELSE IF entry.to_value = "pytz.timezone"
    THEN With(PytzTimezone(loaded.v), LAMBDA z :
             IF z.ok THEN SetOk(m, field, z.v)
             ELSE SetFail(m, Raised("UnknownTimeZoneError", "UnknownTimeZoneError")))
    ELSE SetOk(m, field, loaded.v)

\* config.set(field, value) on the attributes m: [ok, mem, err]
SetResult(m, field, raw) ==
    IF field \notin Fields
    THEN SetFail(m, InvalidConfiguration(<<field>>, Str(raw), "set", "InvalidKey"))
    ELSE With(IF NeedsQuoting(ENTRIES[field].type, raw) THEN Quote(raw) ELSE raw,
              LAMBDA value :
                 With(JsonLoads(value), LAMBDA loaded :
                     SetLoaded(m, field, ENTRIES[field], value, loaded)))

\* config.get(field): [ok, s]; ok = FALSE is the AttributeError of to_string on None
GetResult(m, field) ==
    With(m[field], LAMBDA value :
        IF ENTRIES[field].to_string = "value"
        THEN IF value.t = "ConsoleFormat" THEN [ok |-> TRUE, s |-> JsonDumps(Str(value.s))]
             ELSE [ok |-> FALSE, s |-> <<>>]
        ELSE IF ENTRIES[field].to_string = "zone"
        THEN IF value.t = "tzinfo" THEN [ok |-> TRUE, s |-> JsonDumps(Str(value.s))]
             ELSE [ok |-> FALSE, s |-> <<>>]
        ELSE [ok |-> TRUE, s |-> JsonDumps(value)])

\* the entries property: section -> ordered list of ConfigEntry(key = option, value = get(field))
Entries(m) ==
    [sec \in {ENTRIES[f].section : f \in Fields} |->
        With(SelectSeq(FieldOrder, LAMBDA f : ENTRIES[f].section = sec), LAMBDA mine :
            [i \in 1..Len(mine) |->
                [key |-> ENTRIES[mine[i]].option, value |-> GetResult(m, mine[i]).s]])]

----------------------------------------------------------------------------
(* ConfigParser (BasicInterpolation) on the parsed file *)

EmptyFile == [p \in {} |-> <<>>]

\* BasicInterpolation.before_set: every "%" must be doubled (the %(name)s form
\* needs "(", which no string of the model carries)
RECURSIVE ValidInterpolationSyntax(_)
ValidInterpolationSyntax(s) ==
    IF s = <<>> THEN TRUE
    ELSE IF Head(s) # PCT THEN ValidInterpolationSyntax(Tail(s))
    ELSE IF Len(s) >= 2 /\ s[2] = PCT THEN ValidInterpolationSyntax(SubSeq(s, 3, Len(s)))
    ELSE FALSE

\* BasicInterpolation.before_get: "%%" reads back as "%"; a lone "%" is an
\* InterpolationSyntaxError
RECURSIVE Interpolate(_, _)
Interpolate(s, acc) ==
    IF s = <<>> THEN [ok |-> TRUE, s |-> acc]
    ELSE IF Head(s) # PCT THEN Interpolate(Tail(s), Append(acc, Head(s)))
    ELSE IF Len(s) >= 2 /\ s[2] = PCT THEN Interpolate(SubSeq(s, 3, Len(s)), Append(acc, PCT))
    ELSE [ok |-> FALSE, s |-> <<>>]

\* cp.has_option(section, option)
CpHasOption(f, p) == p \in DOMAIN f

\* cp.get(section, option)
CpGet(f, p) == Interpolate(f[p], <<>>)

\* cp.set(section, option, value), once before_set accepted the value
CpSet(f, p, value) == [q \in DOMAIN f \cup {p} |-> IF q = p THEN value ELSE f[q]]

----------------------------------------------------------------------------
(* TeaConsoleConfig.load, save, __init__ *)

\* the attributes __init__ assigns before load()
Defaults == [f \in Fields |->
    CASE f = "debug"    -> Bool(TRUE)
      [] f = "format"   -> Format(T_EXT)
      [] f = "timezone" -> Tz(LocalZone)
      [] f = "log_dir"  -> Str(LOGS)]

DottedKey(entry) == <<entry.section, entry.option>>

\* the loop of load over ENTRIES, from the i-th field on: [ok, mem, err]
RECURSIVE LoadFields(_, _, _)
LoadFields(m, f, i) ==
    IF i > Len(FieldOrder) THEN [ok |-> TRUE, mem |-> m, err |-> NoErr]
    ELSE IF ~CpHasOption(f, PairOf(FieldOrder[i])) THEN LoadFields(m, f, i + 1)
    ELSE With(CpGet(f, PairOf(FieldOrder[i])), LAMBDA got :
        IF ~got.ok
        THEN SetFail(m, InvalidConfiguration(DottedKey(ENTRIES[FieldOrder[i]]), None, "load",
                                             "InterpolationSyntaxError"))
        ELSE With(SetResult(m, FieldOrder[i], got.s), LAMBDA r :
            IF r.ok THEN LoadFields(r.mem, f, i + 1)
            ELSE IF r.err.type = "InvalidConfiguration" THEN SetFail(m, r.err)
            ELSE SetFail(m, InvalidConfiguration(DottedKey(ENTRIES[FieldOrder[i]]), None,
                                                 "load", r.err.cause))))

\* config.load(): [ok, mem, err]
LoadResult(m, fs, f) ==
    IF fs = "absent" THEN [ok |-> TRUE, mem |-> m, err |-> NoErr]
    ELSE IF fs = "corrupt"
    THEN SetFail(m, InvalidConfiguration(NoKey, None, "get", "CannotReadConfigFile"))
    ELSE LoadFields(m, f, 1)

\* the loop of save over ENTRIES, from the i-th field on: [ok, file, cause]
RECURSIVE SaveFields(_, _, _)
SaveFields(m, f, i) ==
    IF i > Len(FieldOrder) THEN [ok |-> TRUE, file |-> f, cause |-> "none"]
    ELSE With(GetResult(m, FieldOrder[i]), LAMBDA got :
        IF ~got.ok THEN [ok |-> FALSE, file |-> f, cause |-> "AttributeError"]
        ELSE IF ~ValidInterpolationSyntax(got.s)
        THEN [ok |-> FALSE, file |-> f, cause |-> "InvalidInterpolationSyntax"]
        ELSE With(CpSet(f, PairOf(FieldOrder[i]), got.s), LAMBDA g :
                 SaveFields(m, g, i + 1)))

SaveFail(fs, f, cause) ==
    [ok |-> FALSE, fstate |-> fs, file |-> f,
     err |-> InvalidConfiguration(NoKey, None, "save", cause)]

\* mutant: save does not read the existing file before writing
SaveResultFresh(m, fs, f, io) ==
    IF fs = "corrupt" THEN SaveFail(fs, f, "ParsingError")
    ELSE With(SaveFields(m, EmptyFile, 1), LAMBDA cp :
        IF ~cp.ok THEN SaveFail(fs, f, cp.cause)
        ELSE IF ~io THEN SaveFail(fs, f, "OSError")
        ELSE [ok |-> TRUE, fstate |-> "ok", file |-> cp.file, err |-> NoErr])

\* config.save(): [ok, fstate, file, err]; io = FALSE is an OSError of makedirs or open
SaveResult(m, fs, f, io) ==
    IF fs = "corrupt" THEN SaveFail(fs, f, "ParsingError")
    ELSE With(SaveFields(m, IF fs = "ok" THEN f ELSE EmptyFile, 1), LAMBDA cp :
        IF ~cp.ok THEN SaveFail(fs, f, cp.cause)
        ELSE IF ~io THEN SaveFail(fs, f, "OSError")
        ELSE [ok |-> TRUE, fstate |-> "ok", file |-> cp.file, err |-> NoErr])

\* the state of the store
World(i, m, fs, f) == [inst |-> i, mem |-> m, fstate |-> fs, file |-> f]

\* TeaConsoleConfig(config_file): [ok, w, err]
Construct(w, io) ==
    With(LoadResult(Defaults, w.fstate, w.file), LAMBDA l :
        IF ~l.ok
        THEN [ok |-> FALSE, w |-> World("failed", Defaults, w.fstate, w.file), err |-> l.err]
        ELSE With(SaveResult(l.mem, w.fstate, w.file, io), LAMBDA s :
            IF ~s.ok
            THEN [ok |-> FALSE, w |-> World("failed", Defaults, w.fstate, w.file),
                  err |-> s.err]
            ELSE [ok |-> TRUE, w |-> World("ready", l.mem, s.fstate, s.file),
                  err |-> NoErr]))

----------------------------------------------------------------------------
(* TeaConsoleConfig.get_application_config *)

\* mutant: a branching class resolves to its first subclass
RECURSIVE WalkPickFirst(_, _)
WalkPickFirst(ps, klass) ==
    With(SelectSeq([c \in 1..Len(ps) |-> c], LAMBDA c : ps[c] = klass), LAMBDA subclasses :
        IF Len(subclasses) = 0 THEN [ok |-> TRUE, klass |-> klass]
        ELSE WalkPickFirst(ps, subclasses[1]))

\* klass.__subclasses__(): the direct subclasses, in definition order
Subclasses(ps, klass) ==
    SelectSeq([c \in 1..Len(ps) |-> c], LAMBDA c : ps[c] = klass)

\* the while loop: [ok, klass]; ok = FALSE is the InvalidConfiguration of line 182
RECURSIVE Walk(_, _)
Walk(ps, klass) ==
    With(Subclasses(ps, klass), LAMBDA subclasses :
        IF Len(subclasses) = 0 THEN [ok |-> TRUE, klass |-> klass]
        ELSE IF Len(subclasses) = 1 THEN Walk(ps, subclasses[1])
        ELSE [ok |-> FALSE, klass |-> klass])

\* cls.get_application_config() called on the base class 0
GetApplicationConfig(ps) == Walk(ps, 0)

StraightLineError ==
    InvalidConfiguration(NoKey, None, "get", "StraightLineOfInheritance")

\* get_application_config() on the store: the instance, constructed on first use
Resolve(w, ps, io) ==
    IF ~GetApplicationConfig(ps).ok THEN [ok |-> FALSE, w |-> w, err |-> StraightLineError]
    ELSE IF w.inst = "ready" THEN [ok |-> TRUE, w |-> w, err |-> NoErr]
    ELSE Construct(w, io)

----------------------------------------------------------------------------
(* ConfigEngine.set, both copies, and ConfigEngine.list *)

\* mutant: the scan compares the option only
MatchingFieldsByOption(section, option) ==
    SelectSeq(FieldOrder, LAMBDA f : ENTRIES[f].option = option)

\* the for loop of ConfigEngine.set: the fields whose (section, option) match, in order
MatchingFields(section, option) ==
    SelectSeq(FieldOrder,
              LAMBDA f : ENTRIES[f].section = section /\ ENTRIES[f].option = option)

\* mutant: the file is saved before the attribute is set
SaveThenSet(w, field, raw, io) ==
    With(SaveResult(w.mem, w.fstate, w.file, io), LAMBDA s :
        IF ~s.ok THEN [ok |-> FALSE, w |-> w, err |-> s.err]
        ELSE With(SetResult(w.mem, field, raw), LAMBDA r :
            IF ~r.ok
            THEN [ok |-> FALSE, w |-> World(w.inst, w.mem, s.fstate, s.file), err |-> r.err]
            ELSE [ok |-> TRUE, w |-> World(w.inst, r.mem, s.fstate, s.file),
                  err |-> NoErr]))

\* the body of the loop on a match: config.set, then config.save: [ok, w, err]
SetAndSave(w, field, raw, io) ==
    With(SetResult(w.mem, field, raw), LAMBDA r :
        IF ~r.ok
        THEN [ok |-> FALSE, w |-> w,
              err |-> IF r.err.type = "InvalidConfiguration" THEN r.err
                      ELSE InvalidConfiguration(<<field>>, Str(raw), "set", r.err.cause)]
        ELSE With(SaveResult(r.mem, w.fstate, w.file, io), LAMBDA s :
            IF ~s.ok
            THEN [ok |-> FALSE, w |-> World(w.inst, r.mem, w.fstate, w.file), err |-> s.err]
            ELSE [ok |-> TRUE, w |-> World(w.inst, r.mem, s.fstate, s.file),
                  err |-> NoErr]))

\* the loop: the first match is set and saved, no match does nothing
ScanAndSet(w, key, raw, io) ==
    With(MatchingFields(key[1], key[2]), LAMBDA found :
        IF found = <<>> THEN [ok |-> TRUE, w |-> w, err |-> NoErr]
        ELSE SetAndSave(w, found[1], raw, io))

\* key.count(".") != 1
BadKeyFormat(key) == Len(key) - 1 # 1

\* tea_console.engine.config_engine.ConfigEngine.set(key, value): [ok, w, err]
EngineSetTeaConsole(w, ps, key, raw, io) ==
    With(Resolve(w, ps, io), LAMBDA c :
        IF ~c.ok THEN c
        ELSE IF BadKeyFormat(key)
        THEN [ok |-> FALSE, w |-> c.w,
              err |-> InvalidConfiguration(key, Str(raw), "set", "InvalidKeyFormat")]
        ELSE ScanAndSet(c.w, key, raw, io))

\* console_tea.engine.config_engine.ConfigEngine.set(key, value): [ok, w, err]
EngineSetConsoleTea(w, ps, key, raw, io) ==
    With(Resolve(w, ps, io), LAMBDA c :
        IF ~c.ok THEN c
        ELSE IF BadKeyFormat(key)
        THEN [ok |-> FALSE, w |-> c.w, err |-> Raised("ValueError", "InvalidKeyFormat")]
        ELSE ScanAndSet(c.w, key, raw, io))

----------------------------------------------------------------------------
(* Inputs *)

R_true     == <<"t", "r", "u", "e">>
R_false    == <<"f", "a", "l", "s", "e">>
R_null     == <<"n", "u", "l", "l">>
R_sp_null  == <<SP, "n", "u", "l", "l">>
R_notabool == <<Q, "n", "o", "t", "a", "b", "o", "o", "l", Q>>
R_one      == <<"1">>
R_json     == <<"j", "s", "o", "n">>
R_utc      == <<"u", "t", "c">>
R_a_q_b    == <<"a", Q, "b">>
R_a_pp_b   == <<"a", PCT, PCT, "b">>
R_a_p      == <<"a", PCT>>
R_q_json   == <<Q, "j", "s", "o", "n", Q>>

Call(name, raw) == [name |-> name, raw |-> raw]

\* calls config.set(field, raw) of the direct API, most telling first
SetList ==
    << Call("debug", R_notabool), Call("debug", R_null), Call("format", R_json),
       Call("format", R_utc), Call("timezone", R_json), Call("timezone", R_utc),
       Call("log_dir", R_a_pp_b),
       Call("log_dir", R_a_p), Call("log_dir", R_a_q_b), Call("log_dir", R_sp_null),
       Call("nope", R_true),
       Call("debug", R_one), Call("format", R_q_json), Call("format", R_null) >>

\* how many of them the model draws from
MaxSet == 11

SetInputs == {SetList[i] : i \in 1..(IF MaxSet < Len(SetList) THEN MaxSet ELSE Len(SetList))}

\* calls ConfigEngine.set(key, raw), the dotted key as its parts, most telling first
EngineList ==
    << Call(<<"general", "debug">>, R_false), Call(<<"general", "debug">>, R_notabool),
       Call(<<"general", "log_dir">>, R_a_p), Call(<<"general", "log_dir">>, R_a_pp_b),
       Call(<<"general", "format">>, R_json), Call(<<"general", "timezone">>, R_utc),
       Call(<<"general", "timezone">>, R_json), Call(<<"badkey">>, R_true),
       Call(<<"a", "b", "c">>, R_true), Call(<<"", "debug">>, R_false),
       Call(<<"general", "">>, R_false), Call(<<"general", "nope">>, R_false),
       Call(<<"other", "debug">>, R_false),
       Call(<<"general", "debug">>, R_null), Call(<<"general", "log_dir">>, R_json) >>

\* how many of them the model draws from
MaxEngine == 13

EngineInputs ==
    {EngineList[i] : i \in 1..(IF MaxEngine < Len(EngineList) THEN MaxEngine
                               ELSE Len(EngineList))}

\* the backing file before the first construction
InitialFiles ==
    { [fstate |-> "absent", file |-> EmptyFile],
      [fstate |-> "corrupt", file |-> EmptyFile],
      [fstate |-> "ok", file |-> (<<"general", "debug">> :> R_false
                                  @@ <<"extra", "x">> :> <<"5", PCT>>)],
      [fstate |-> "ok", file |-> (<<"general", "debug">> :> R_notabool)],
      [fstate |-> "ok", file |-> (<<"general", "timezone">> :> <<Q, "m", "a", "r", "s", Q>>)],
      [fstate |-> "ok", file |-> (<<"general", "log_dir">> :> R_a_p)],
      [fstate |-> "ok", file |-> (<<"general", "log_dir">> :> Quote(R_a_pp_b))] }

----------------------------------------------------------------------------
(* State machine *)

Op(op, key, raw, ok, err) == [op |-> op, key |-> key, raw |-> raw, ok |-> ok, err |-> err]

NoOp == Op("none", NoKey, None, TRUE, NoErr)

NoTwin == [bare |-> FALSE, trimmed |-> FALSE, ok |-> TRUE, mem |-> Defaults]

NoResolve == [outcome |-> "none", klass |-> 0, n |-> 0]

\* the claim's precondition on a bare input: not enclosed in double quotes, not null
Enclosed(s) == Len(s) >= 2 /\ s[1] = Q /\ s[Len(s)] = Q
Bare(s) == ~Enclosed(s) /\ Lower(s) # R_null
BareTrimmed(s) == ~Enclosed(s) /\ Lower(Strip(s)) # R_null

StoreInit ==
    /\ inst = "none"
    /\ mem = Defaults
    /\ \E fi \in InitialFiles : fstate = fi.fstate /\ file = fi.file
    /\ last = NoOp
    /\ twin = NoTwin

Init ==
    /\ parents = <<>>
    /\ resolved = NoResolve
    /\ StoreInit

TheWorld == World(inst, mem, fstate, file)

Becomes(w) ==
    /\ inst' = w.inst
    /\ mem' = w.mem
    /\ fstate' = w.fstate
    /\ file' = w.file

\* TeaConsoleConfig(config_file), the first access of the singleton
NewConfig ==
    /\ inst # "ready"
    /\ \E io \in BOOLEAN : \E c \in {Construct(TheWorld, io)} :
             /\ Becomes(c.w)
             /\ last' = Op("init", NoKey, None, c.ok, c.err)
    /\ twin' = NoTwin
    /\ UNCHANGED <<parents, resolved>>

\* config.set(field, raw)
Set(field, raw) ==
    /\ inst = "ready"
    /\ \E r \in {SetResult(mem, field, raw)}, q \in {SetResult(mem, field, Quote(raw))} :
           /\ mem' = r.mem
           /\ last' = Op("set", <<field>>, Str(raw), r.ok, r.err)
           /\ twin' = IF field \in Fields /\ ENTRIES[field].type = "str"
                      THEN [bare |-> Bare(raw), trimmed |-> BareTrimmed(raw),
                            ok |-> q.ok, mem |-> q.mem]
                      ELSE NoTwin
    /\ UNCHANGED <<parents, resolved, inst, fstate, file>>

\* config.load()
Load ==
    /\ inst = "ready"
    /\ \E r \in {LoadResult(mem, fstate, file)} :
           /\ mem' = r.mem
           /\ last' = Op("load", NoKey, None, r.ok, r.err)
    /\ twin' = NoTwin
    /\ UNCHANGED <<parents, resolved, inst, fstate, file>>

\* config.save()
Save ==
    /\ inst = "ready"
    /\ \E io \in BOOLEAN : \E r \in {SaveResult(mem, fstate, file, io)} :
             /\ fstate' = r.fstate
             /\ file' = r.file
             /\ last' = Op("save", NoKey, None, r.ok, r.err)
    /\ twin' = NoTwin
    /\ UNCHANGED <<parents, resolved, inst, mem>>

\* config.entries
ListEntries ==
    /\ inst = "ready"
    /\ last' = Op("entries", NoKey, None, TRUE, NoErr)
    /\ twin' = NoTwin
    /\ UNCHANGED <<parents, resolved, inst, mem, fstate, file>>

Next ==
    \/ NewConfig
    \/ \E c \in SetInputs : Set(c.name, c.raw)
    \/ Load
    \/ Save
    \/ ListEntries

Spec == Init /\ [][Next]_vars

----------------------------------------------------------------------------
(* The CLI-facing engine: ConfigEngine.set of both packages, ConfigEngine.list *)

EngineSetOps == {"tea_console.set", "console_tea.set"}

\* tea_console ConfigEngine.set(key, raw)
TeaConsoleSet(key, raw) ==
    /\ \E io \in BOOLEAN : \E r \in {EngineSetTeaConsole(TheWorld, parents, key, raw, io)} :
             /\ Becomes(r.w)
             /\ last' = Op("tea_console.set", key, Str(raw), r.ok, r.err)
    /\ twin' = NoTwin
    /\ UNCHANGED <<parents, resolved>>

\* console_tea ConfigEngine.set(key, raw)
ConsoleTeaSet(key, raw) ==
    /\ \E io \in BOOLEAN : \E r \in {EngineSetConsoleTea(TheWorld, parents, key, raw, io)} :
             /\ Becomes(r.w)
             /\ last' = Op("console_tea.set", key, Str(raw), r.ok, r.err)
    /\ twin' = NoTwin
    /\ UNCHANGED <<parents, resolved>>

\* ConfigEngine.list(): get_application_config().entries
EngineListing ==
    /\ \E io \in BOOLEAN : \E c \in {Resolve(TheWorld, parents, io)} :
             /\ Becomes(c.w)
             /\ last' = Op("list", NoKey, None, c.ok, c.err)
    /\ twin' = NoTwin
    /\ UNCHANGED <<parents, resolved>>

NextEngine ==
    \/ \E c \in EngineInputs : TeaConsoleSet(c.name, c.raw)
    \/ \E c \in EngineInputs : ConsoleTeaSet(c.name, c.raw)
    \/ EngineListing

SpecEngine == Init /\ [][NextEngine]_vars

----------------------------------------------------------------------------
(* The class hierarchy and get_application_config *)

\* how many subclasses of TeaConsoleConfig get defined
MaxClasses == 5

ResolveInit ==
    /\ parents = <<>>
    /\ resolved = NoResolve
    /\ inst = "none"
    /\ mem = Defaults
    /\ fstate = "absent"
    /\ file = EmptyFile
    /\ last = NoOp
    /\ twin = NoTwin

\* class New(base): ... for a class base already defined
DefineSubclass(base) ==
    /\ Len(parents) < MaxClasses
    /\ parents' = Append(parents, base)
    /\ UNCHANGED <<resolved, inst, mem, fstate, file, last, twin>>

\* TeaConsoleConfig.get_application_config(); n is the number of subclasses at the call
CallGetApplicationConfig ==
    /\ \E g \in {GetApplicationConfig(parents)} :
           resolved' = [outcome |-> IF g.ok THEN "instance" ELSE "error",
                        klass |-> g.klass, n |-> Len(parents)]
    /\ UNCHANGED <<parents, inst, mem, fstate, file, last, twin>>

NextResolve ==
    \/ \E base \in 0..Len(parents) : DefineSubclass(base)
    \/ CallGetApplicationConfig

SpecResolve == ResolveInit /\ [][NextResolve]_vars

----------------------------------------------------------------------------
(* Claims *)

\* the hierarchy as it was at the last get_application_config call
HierarchyAtCall == SubSeq(parents, 1, resolved.n)

ChildrenOf(ps, c) == {d \in 1..Len(ps) : ps[d] = c}

RECURSIVE AncestorsOf(_, _)
AncestorsOf(ps, c) == IF c = 0 THEN {} ELSE {ps[c]} \cup AncestorsOf(ps, ps[c])

\* every class above c has c's branch as its only direct subclass
OnStraightLine(ps, c) == \A a \in AncestorsOf(ps, c) : Cardinality(ChildrenOf(ps, a)) = 1

\* C1: get_application_config returns the instance of the class without subclasses at the
\* end of a chain of single subclasses, and fails at the first class of the chain that has
\* two or more direct subclasses, never picking one of them.
C1_StraightLineOrError ==
    resolved.outcome # "none" =>
        /\ OnStraightLine(HierarchyAtCall, resolved.klass)
        /\ resolved.outcome = "instance" => ChildrenOf(HierarchyAtCall, resolved.klass) = {}
        /\ resolved.outcome = "error" =>
               Cardinality(ChildrenOf(HierarchyAtCall, resolved.klass)) >= 2
        /\ (\E d \in 0..resolved.n :
                /\ OnStraightLine(HierarchyAtCall, d)
                /\ Cardinality(ChildrenOf(HierarchyAtCall, d)) >= 2)
           => resolved.outcome = "error"

\* a call that failed at a branching class below the base, and one that descended two levels
C1_Witness ==
    /\ resolved.outcome = "error"
    /\ resolved.klass # 0
    /\ resolved.n = Len(parents)

\* C2: a set that fails leaves every attribute of the instance as it was.
C2_FailedSetKeepsAttributes ==
    [][(last'.op = "set" /\ ~last'.ok) => mem' = mem]_vars

\* set("debug", "\"notabool\"") failed with a type mismatch
C2_Witness ==
    /\ last.op = "set"
    /\ ~last.ok
    /\ last.key = <<"debug">>
    /\ last.raw = Str(R_notabool)
    /\ last.err.cause = "TypeMismatch"

\* the runtime type the attribute of a field holds once decoded
DecodedType(f) ==
    CASE ENTRIES[f].to_value = "ConsoleFormat" -> "ConsoleFormat"
      [] ENTRIES[f].to_value = "pytz.timezone" -> "tzinfo"
      [] OTHER -> ENTRIES[f].type

\* C3 as stated: every attribute of a constructed instance holds a value of its declared
\* type after decoding; debug always holds a boolean.
C3_AttributesHaveDeclaredType ==
    inst = "ready" => \A f \in Fields : mem[f].t = DecodedType(f)

\* C3 amended: every attribute holds a value of its declared type after decoding, or null;
\* null only in the fields without a decoder (debug, log_dir).
C3_AttributesHaveDeclaredTypeOrNull ==
    inst = "ready" =>
        \A f \in Fields :
            \/ mem[f].t = DecodedType(f)
            \/ mem[f] = None /\ ENTRIES[f].to_value = "none"

\* set("debug", "null") succeeded and debug holds None
C3_Witness ==
    /\ inst = "ready"
    /\ last.op = "set"
    /\ last.ok
    /\ last.key = <<"debug">>
    /\ last.raw = Str(R_null)
    /\ mem["debug"] = None

\* C4: a load that directly follows a successful save leaves every attribute unchanged.
C4_SaveLoadKeepsAttributes ==
    [][(last.op = "save" /\ last.ok /\ last'.op = "load") => mem' = mem]_vars

\* C5: every save that succeeds, called directly or by __init__, keeps every pair of the
\* file that no field owns and adds no pair that no field owns (a save that fails and every
\* other operation leave the file alone); a direct save writes the encoded attribute to
\* every owned pair.
C5_SaveKeepsUnrelatedPairs ==
    [][/\ \A p \in DOMAIN file \ OwnedPairs : p \in DOMAIN file' /\ file'[p] = file[p]
       /\ DOMAIN file' \subseteq DOMAIN file \cup OwnedPairs
       /\ (last'.op = "save" /\ last'.ok) =>
              \A f \in Fields : file'[PairOf(f)] = GetResult(mem, f).s]_vars

\* a save wrote a changed log_dir into a file that holds the unrelated pair extra.x
C5_Witness ==
    /\ last.op = "save"
    /\ last.ok
    /\ <<"extra", "x">> \in DOMAIN file
    /\ file[<<"extra", "x">>] = <<"5", PCT>>
    /\ file[<<"general", "log_dir">>] = Quote(R_a_pp_b)

\* the attributes are the ones stored in the file
MemoryMatchesFile ==
    /\ fstate = "ok"
    /\ \A f \in Fields : PairOf(f) \in DOMAIN file /\ file[PairOf(f)] = GetResult(mem, f).s

\* C6: after any call of ConfigEngine.set, returned or failed, the attribute of every field
\* equals the value stored for it in the file.
C6_EngineSetNeverPartial ==
    (inst = "ready" /\ last.op \in EngineSetOps) => MemoryMatchesFile

\* the shape section.option: exactly two non-empty parts
SectionOptionShape(key) == Len(key) = 2 /\ key[1] # "" /\ key[2] # ""

\* C7: ConfigEngine.set with a key that is not of the shape section.option fails with the
\* key-format error.
C7_BadKeyFails ==
    (inst = "ready" /\ last.op \in EngineSetOps /\ ~SectionOptionShape(last.key)) =>
        ~last.ok /\ last.err.cause = "InvalidKeyFormat"

\* the field that owns the pair key
FieldOfPair(key) == CHOOSE f \in Fields : PairOf(f) = key

\* C8: ConfigEngine.set on an owned key with a raw value that passes coercion returns with
\* the attribute set to the decoded value, the file storing its encoding under the key, the
\* listing showing that encoding for the option, and every other attribute unchanged.
C8_EngineSetThenSave ==
    [][(inst = "ready" /\ last'.op \in EngineSetOps /\ last'.ok /\ last'.key \in OwnedPairs) =>
          LET f == FieldOfPair(last'.key)
          IN  /\ mem'[f] = SetResult(mem, f, last'.raw.s).mem[f]
              /\ fstate' = "ok"
              /\ file'[PairOf(f)] = GetResult(mem', f).s
              /\ \E i \in 1..Len(Entries(mem')[ENTRIES[f].section]) :
                    Entries(mem')[ENTRIES[f].section][i] =
                        [key |-> ENTRIES[f].option, value |-> file'[PairOf(f)]]
              /\ \A g \in Fields \ {f} : mem'[g] = mem[g]]_vars

\* ConfigEngine.set("general.format", "json") returned: format is json and the file holds "json"
C8_Witness ==
    /\ inst = "ready"
    /\ last.op \in EngineSetOps
    /\ last.ok
    /\ last.key = <<"general", "format">>
    /\ last.raw = Str(R_json)
    /\ mem["format"] = Format(J_SON)
    /\ file[<<"general", "format">>] = Quote(J_SON)

\* C9: ConfigEngine.set with a key of the shape section.option that no field owns returns
\* without error and changes neither the attributes nor the file.
C9_UnknownKeyIsNoOp ==
    [][(inst = "ready" /\ last'.op \in EngineSetOps /\ SectionOptionShape(last'.key)
          /\ last'.key \notin OwnedPairs) =>
          /\ last'.ok
          /\ UNCHANGED <<inst, mem, fstate, file>>]_vars

\* ConfigEngine.set("other.debug", "false") returned while debug is still true
C9_Witness ==
    /\ inst = "ready"
    /\ last.op \in EngineSetOps
    /\ last.ok
    /\ last.key = <<"other", "debug">>
    /\ last.raw = Str(R_false)
    /\ mem["debug"] = Bool(TRUE)

\* C10 as stated: on a string-typed field a bare input (not enclosed in double quotes, not
\* the literal null) is set successfully and leaves the state set(field, "\"s\"") leaves.
C10_BareSucceedsLikeQuoted ==
    (last.op = "set" /\ twin.bare) => last.ok /\ twin.ok /\ twin.mem = mem

\* C10 amended: on a string-typed field a bare input (not enclosed in double quotes, not
\* null once trimmed and lowercased) has the outcome of the same input enclosed in double
\* quotes: both succeed and leave the same state, or both fail.
C10_BareLikeQuoted ==
    (last.op = "set" /\ twin.trimmed) => last.ok = twin.ok /\ twin.mem = mem

\* set("format", "json") with the bare word succeeded
C10_Witness ==
    /\ last.op = "set"
    /\ last.ok
    /\ last.key = <<"format">>
    /\ last.raw = Str(R_json)
    /\ twin.trimmed
    /\ mem["format"] = Format(J_SON)

\* the operations of the store that the caller invokes by name
StoreOps == {"set", "load", "save"}

\* C11: every failure of set, load or save is an InvalidConfiguration whose operation kind
\* is the operation invoked; a failed set carries the field name and the raw value the
\* caller passed; a failed load (called directly or by __init__) carries operation load
\* and the section.option of an owned pair.
C11_FailuresAreTagged ==
    /\ (last.op \in StoreOps /\ ~last.ok) =>
           /\ last.err.type = "InvalidConfiguration"
           /\ last.err.op = last.op
           /\ (last.op = "set") => (last.err.key = last.key /\ last.err.value = last.raw)
           /\ (last.op = "load") => (last.err.key \in OwnedPairs)
    /\ (last.op = "init" /\ ~last.ok /\ last.err.op # "save") =>
           /\ last.err.type = "InvalidConfiguration"
           /\ last.err.op = "load"
           /\ last.err.key \in OwnedPairs

\* C12: the two copies of ConfigEngine.set, run from the same store on the same key and
\* value under the same file-system behaviour, end in the same store and have the same
\* outcome: both return, or both fail with the same type of exception.
C12_CopiesAgree ==
    [][(last'.op \in EngineSetOps) =>
           \A io \in BOOLEAN :
               \E a \in {EngineSetTeaConsole(TheWorld, parents, last'.key, last'.raw.s, io)},
                  b \in {EngineSetConsoleTea(TheWorld, parents, last'.key, last'.raw.s, io)} :
                   /\ a.w = b.w
                   /\ a.ok = b.ok
                   /\ a.err.type = b.err.type]_vars

============================================================================
